---------------------------- MODULE Spec2Model ----------------------------
(***************************************************************************)
(* Model of src/App.py: a Streamlit script that, on every render cycle,    *)
(* reads a city and a unit system, fetches the current weather and the     *)
(* 5-day / 3-hour forecast from OpenWeatherMap, aggregates the forecast    *)
(* into one row per calendar day (build_daily_summary) and renders it.     *)
(*                                                                         *)
(* Floats are modelled as exact rationals [num, den]; NaN is 0/0.          *)
(* Strings the code inspects character by character (the city) are         *)
(* sequences of characters.  Calendar dates are day numbers since the      *)
(* epoch, which order the way datetime.date does.                          *)
(***************************************************************************)
EXTENDS Integers, Sequences, FiniteSets, TLC

VARIABLES
    pc,            \* position of the script in the current render cycle
    envKey,        \* OPENWEATHER_API_KEY as the environment / .env supplies it
    city,          \* value of the city text input
    units,         \* "metric" or "imperial"
    show_details,  \* value of the debug checkbox
    current,       \* result of fetch_current_weather
    forecast,      \* result of fetch_forecast
    daily,         \* result of build_daily_summary
    calls,         \* HTTP requests issued in this render cycle, in order
    shown,         \* st.warning / st.error messages of this cycle, in order
    rendered,      \* weather sections rendered in this cycle, in order
    raised         \* exception that escaped the script in this cycle

vars == <<pc, envKey, city, units, show_details, current, forecast, daily,
          calls, shown, rendered, raised>>

(***************************************************************************)
(* Bounds of the model.                                                    *)
(***************************************************************************)
MaxLen == 3        \* longest forecast list given to build_daily_summary
MaxCityLen == 2    \* longest city string typed into the text input

(***************************************************************************)
(* Program constants.                                                      *)
(***************************************************************************)
API_KEY == "5dca0cbaba07a83d089df84b8751d7a3"
SecondsPerDay == 86400

NoException == "none"

(***************************************************************************)
(* Floats.                                                                 *)
(***************************************************************************)
Float(n) == [num |-> n, den |-> 1]
NaN == [num |-> 0, den |-> 0]
IsNaN(x) == x.den = 0
\* x <= y for two floats that are not NaN (denominators are positive)
FloatLeq(x, y) == x.num * y.den <= y.num * x.den

(***************************************************************************)
(* Forecast items.  A JSON item is a record of its values, the set of      *)
(* keys that are absent and the set of keys whose value is JSON null.      *)
(***************************************************************************)
Item(dt, tmin, temp, tmax, icon) ==
    [dt |-> dt, temp |-> temp, temp_min |-> tmin, temp_max |-> tmax,
     icon |-> icon, absent |-> {}, nulls |-> {}]

WellFormed(it) == it.absent = {} /\ it.nulls = {}

\* datetime.utcfromtimestamp(ts).date(): the UTC calendar day of an instant
UtcDate(ts) == ts \div SecondsPerDay

\* Lines 50-60: the loop that builds one row per item.  it["dt"],
\* it["main"]["temp"], ... raise KeyError on an absent key;
\* utcfromtimestamp(None) raises TypeError.  A null temperature is stored
\* as None and becomes NaN in the DataFrame.
RowError(it) ==
    IF "dt" \in it.absent THEN "KeyError"
    ELSE IF "dt" \in it.nulls THEN "TypeError"
    ELSE IF it.absent # {} THEN "KeyError"
    ELSE NoException

Cell(it, key) == IF key \in it.nulls THEN NaN ELSE Float(it[key])

Row(it) ==
    [date |-> UtcDate(it.dt),
     temp |-> Cell(it, "temp"),
     temp_min |-> Cell(it, "temp_min"),
     temp_max |-> Cell(it, "temp_max"),
     icon |-> it.icon]

RECURSIVE FirstRowError(_)
FirstRowError(items) ==
    IF items = <<>> THEN NoException
    ELSE IF RowError(Head(items)) # NoException THEN RowError(Head(items))
    ELSE FirstRowError(Tail(items))

Rows(items) == [i \in 1..Len(items) |-> Row(items[i])]

(***************************************************************************)
(* df.groupby("date"): the group keys in ascending order, and each group   *)
(* with its rows in the order of the frame.                                *)
(***************************************************************************)
SetMin(S) == CHOOSE x \in S : \A y \in S : x <= y

RECURSIVE Ascending(_)
Ascending(S) ==
    IF S = {} THEN <<>>
    ELSE <<SetMin(S)>> \o Ascending(S \ {SetMin(S)})

RECURSIVE FirstAppearance(_, _)
FirstAppearance(df, seen) ==
    IF df = <<>> THEN <<>>
    ELSE IF Head(df).date \in seen THEN FirstAppearance(Tail(df), seen)
    ELSE <<Head(df).date>> \o FirstAppearance(Tail(df), seen \cup {Head(df).date})

\* groupby(sort=False): keys in order of first appearance
GroupKeys_Unsorted(df) == FirstAppearance(df, {})

GroupKeys(df) == Ascending({df[i].date : i \in 1..Len(df)})

\* no partition: every row lands in every group
Group_WholeFrame(df, d) == df

Group(df, d) == SelectSeq(df, LAMBDA r : r.date = d)

(***************************************************************************)
(* The aggregations of lines 63-68.  pandas skips NaN in mean, min and     *)
(* max; a group with nothing but NaN gives NaN.                            *)
(***************************************************************************)
Column(g, key) == [i \in 1..Len(g) |-> g[i][key]]
NotNaN(x) == ~IsNaN(x)
DropNaN(col) == SelectSeq(col, NotNaN)

RECURSIVE SumNum(_)
SumNum(col) == IF col = <<>> THEN 0 ELSE Head(col).num + SumNum(Tail(col))

RECURSIVE FoldMin(_)
FoldMin(col) ==
    IF Len(col) = 1 THEN Head(col)
    ELSE LET m == FoldMin(Tail(col))
         IN IF FloatLeq(Head(col), m) THEN Head(col) ELSE m

RECURSIVE FoldMax(_)
FoldMax(col) ==
    IF Len(col) = 1 THEN Head(col)
    ELSE LET m == FoldMax(Tail(col))
         IN IF FloatLeq(m, Head(col)) THEN Head(col) ELSE m

\* "temp": "mean"  (every cell has denominator 1)
AggMean(g) ==
    LET col == DropNaN(Column(g, "temp"))
    IN IF col = <<>> THEN NaN ELSE [num |-> SumNum(col), den |-> Len(col)]

\* "temp_min": "min"
AggMin(g) ==
    LET col == DropNaN(Column(g, "temp_min"))
    IN IF col = <<>> THEN NaN ELSE FoldMin(col)

\* "max" mistyped as "min"
AggMax_Min(g) ==
    LET col == DropNaN(Column(g, "temp_max"))
    IN IF col = <<>> THEN NaN ELSE FoldMin(col)

\* "temp_max": "max"
AggMax(g) ==
    LET col == DropNaN(Column(g, "temp_max"))
    IN IF col = <<>> THEN NaN ELSE FoldMax(col)

\* the middle taken as (len - 1) // 2
MiddleIcon_Lower(g) == g[((Len(g) - 1) \div 2) + 1].icon

\* lambda icons: icons.iloc[len(icons)//2]   (iloc is 0-based)
MiddleIcon(g) == g[(Len(g) \div 2) + 1].icon

Summarise(df, d) ==
    LET g == Group(df, d)
    IN [date |-> d, temp |-> AggMean(g), temp_min |-> AggMin(g),
        temp_max |-> AggMax(g), icon |-> MiddleIcon(g)]

NotBuilt == [built |-> FALSE, rows |-> <<>>]

\* build_daily_summary(forecast_json): [error, daily].  With no items
\* pd.DataFrame([]) has no columns and df["dt"] raises KeyError.
build_daily_summary(forecast_json) ==
    LET items == IF forecast_json.hasList THEN forecast_json.list ELSE <<>>
    IN IF FirstRowError(items) # NoException
       THEN [error |-> FirstRowError(items), daily |-> NotBuilt]
       ELSE IF items = <<>>
       THEN [error |-> "KeyError", daily |-> NotBuilt]
       ELSE LET df == Rows(items)
                keys == GroupKeys(df)
            IN [error |-> NoException,
                daily |-> [built |-> TRUE,
                           rows |-> [k \in 1..Len(keys) |-> Summarise(df, keys[k])]]]

(***************************************************************************)
(* The city text input.  A string is a sequence of characters.             *)
(***************************************************************************)
Whitespace == {" ", "\t"}
Chars == Whitespace \cup {"M"}
Cities == UNION {[1..n -> Chars] : n \in 0..MaxCityLen}
DefaultCity == <<"M">>          \* value="Mumbai,IN"

RECURSIVE LStrip(_)
LStrip(s) ==
    IF s # <<>> /\ Head(s) \in Whitespace THEN LStrip(Tail(s)) ELSE s

RECURSIVE RStrip(_)
RStrip(s) ==
    IF s # <<>> /\ s[Len(s)] \in Whitespace
    THEN RStrip(SubSeq(s, 1, Len(s) - 1)) ELSE s

\* str.strip()
Strip(s) == RStrip(LStrip(s))

\* the test without the strip
CityRejected_NoStrip(c) == c = <<>>

\* line 84: not city or city.strip() == ""
CityRejected(c) == c = <<>> \/ Strip(c) = <<>>

(***************************************************************************)
(* The environment and the API's responses.                                *)
(***************************************************************************)
EnvKeys == {[set |-> FALSE, value |-> ""],
            [set |-> TRUE, value |-> ""],
            [set |-> TRUE, value |-> "key-from-environment"]}

UnitOptions == {"Celsius", "Fahrenheit"}
\* line 80
UnitsOf(unit_option) == IF unit_option = "Celsius" THEN "metric" ELSE "imperial"

\* the keys of the current-weather response the script reads without a default
CurrentKeys == {"weather", "main", "sys", "temp", "feels_like", "sunrise"}

NotFetchedCurrent == [fetched |-> FALSE, present |-> {}]
CurrentResponses ==
    {[fetched |-> TRUE, present |-> CurrentKeys \ m] :
        m \in {{}} \cup {{k} : k \in CurrentKeys}}

NotFetchedForecast == [fetched |-> FALSE, hasList |-> FALSE, list |-> <<>>]
Forecast(l) == [fetched |-> TRUE, hasList |-> TRUE, list |-> l]
ForecastWithoutList == [fetched |-> TRUE, hasList |-> FALSE, list |-> <<>>]

GoodItem1 == Item(1704070800, 8, 10, 12, "01d")
GoodItem2 == Item(1704157200, 18, 20, 22, "02d")
ResponseItems ==
    {GoodItem1, GoodItem2,
     [GoodItem1 EXCEPT !.absent = {"temp"}],
     [GoodItem1 EXCEPT !.absent = {"icon"}],
     [GoodItem1 EXCEPT !.nulls = {"temp"}],
     [GoodItem1 EXCEPT !.nulls = {"dt"}]}
\* A "temp" column of nothing but nulls is an object column, whose
\* aggregation is left to the pandas version at hand; the responses here
\* carry a number in at least one item whenever one of them has a null.
SomeNumericTemp(l) ==
    (\E i \in DOMAIN l : "temp" \in l[i].nulls)
        => (\E i \in DOMAIN l : "temp" \notin l[i].nulls \cup l[i].absent)
ForecastResponses ==
    {ForecastWithoutList}
    \cup {Forecast(l) : l \in {x \in UNION {[1..n -> ResponseItems] : n \in 0..2} :
                                    SomeNumericTemp(x)}}

\* what one HTTP request can end in: a response, raise_for_status raising
\* HTTPError, requests.get raising ConnectionError / Timeout, r.json() raising
FetchOutcomes == {"ok", "http_error", "transport_error", "bad_json"}

Request(url, outcome) ==
    [url |-> url, q |-> city, appid |-> API_KEY, units |-> units,
     outcome |-> outcome]

\* lines 93-98: the message of the except clause that catches the failure
FetchErrorMessage(outcome) ==
    IF outcome = "http_error"
    THEN [level |-> "error", text |-> "API request failed"]
    ELSE [level |-> "error", text |-> "Unexpected error"]

\* an except clause that lacks its st.stop(): the script goes on
AfterFetchError_NoStop == "show_raw"

\* lines 95, 98: st.stop() ends the cycle
AfterFetchError == "stopped"

\* lines 107-130: the first statement that raises on this response
ParseCurrentError(cur) ==
    IF "weather" \notin cur.present THEN "KeyError"          \* line 108
    ELSE IF "main" \notin cur.present THEN "KeyError"        \* line 109
    ELSE IF "sys" \notin cur.present THEN "KeyError"         \* line 113
    ELSE IF "temp" \notin cur.present THEN "KeyError"        \* line 122
    ELSE IF "feels_like" \notin cur.present THEN "TypeError" \* line 123
    ELSE IF "sunrise" \notin cur.present THEN "TypeError"    \* line 129
    ELSE NoException

(***************************************************************************)
(* The render cycle.                                                       *)
(***************************************************************************)
CycleStart ==
    /\ pc = "start"
    /\ current = NotFetchedCurrent
    /\ forecast = NotFetchedForecast
    /\ daily = NotBuilt
    /\ calls = <<>>
    /\ shown = <<>>
    /\ rendered = <<>>
    /\ raised = NoException

Init ==
    /\ CycleStart
    /\ envKey \in EnvKeys
    /\ city = DefaultCity
    /\ units = "metric"
    /\ show_details = FALSE

\* lines 10-16: the key is the literal of line 13, whatever the environment holds
Startup ==
    /\ pc = "start"
    /\ IF API_KEY = ""
       THEN /\ shown' = Append(shown, [level |-> "error",
                                      text |-> "OpenWeatherMap API key not found"])
            /\ pc' = "stopped"
       ELSE /\ pc' = "read_inputs"
            /\ UNCHANGED shown
    /\ UNCHANGED <<envKey, city, units, show_details, current, forecast, daily,
                   calls, rendered, raised>>

\* lines 76-82: the widgets return what the user has entered
ReadInputs ==
    /\ pc = "read_inputs"
    /\ \E c \in Cities, u \in UnitOptions, d \in BOOLEAN :
          /\ city' = c
          /\ units' = UnitsOf(u)
          /\ show_details' = d
    /\ pc' = "validate"
    /\ UNCHANGED <<envKey, current, forecast, daily, calls, shown, rendered,
                   raised>>

\* lines 84-86
Validate ==
    /\ pc = "validate"
    /\ IF CityRejected(city)
       THEN /\ shown' = Append(shown, [level |-> "warning",
                                      text |-> "Please enter a city name."])
            /\ pc' = "stopped"
       ELSE /\ pc' = "fetch_current"
            /\ UNCHANGED shown
    /\ UNCHANGED <<envKey, city, units, show_details, current, forecast, daily,
                   calls, rendered, raised>>

\* line 91 with its except clauses.  st.cache_data returns a stored response
\* without a request when it holds one for (city, units); the cache is shared
\* by every session of the process, so any call may be a hit.
FetchCurrent ==
    /\ pc = "fetch_current"
    /\ \E hit \in BOOLEAN, outcome \in FetchOutcomes, resp \in CurrentResponses :
          IF hit
          THEN /\ current' = resp
               /\ pc' = "fetch_forecast"
               /\ UNCHANGED <<calls, shown>>
          ELSE /\ calls' = Append(calls, Request("weather", outcome))
               /\ IF outcome = "ok"
                  THEN /\ current' = resp
                       /\ pc' = "fetch_forecast"
                       /\ UNCHANGED shown
                  ELSE /\ shown' = Append(shown, FetchErrorMessage(outcome))
                       /\ pc' = AfterFetchError
                       /\ UNCHANGED current
    /\ UNCHANGED <<envKey, city, units, show_details, forecast, daily, rendered,
                   raised>>

\* line 92 with its except clauses
FetchForecast ==
    /\ pc = "fetch_forecast"
    /\ \E hit \in BOOLEAN, outcome \in FetchOutcomes, resp \in ForecastResponses :
          IF hit
          THEN /\ forecast' = resp
               /\ pc' = "show_raw"
               /\ UNCHANGED <<calls, shown>>
          ELSE /\ calls' = Append(calls, Request("forecast", outcome))
               /\ IF outcome = "ok"
                  THEN /\ forecast' = resp
                       /\ pc' = "show_raw"
                       /\ UNCHANGED shown
                  ELSE /\ shown' = Append(shown, FetchErrorMessage(outcome))
                       /\ pc' = AfterFetchError
                       /\ UNCHANGED forecast
    /\ UNCHANGED <<envKey, city, units, show_details, current, daily, rendered,
                   raised>>

\* lines 100-104
ShowRaw ==
    /\ pc = "show_raw"
    /\ rendered' = IF show_details THEN Append(rendered, "raw_json") ELSE rendered
    /\ pc' = "render_current"
    /\ UNCHANGED <<envKey, city, units, show_details, current, forecast, daily,
                   calls, shown, raised>>

\* lines 106-130: no try block encloses them
RenderCurrent ==
    /\ pc = "render_current"
    /\ IF ParseCurrentError(current) # NoException
       THEN /\ raised' = ParseCurrentError(current)
            /\ pc' = "crashed"
            /\ UNCHANGED rendered
       ELSE /\ rendered' = Append(rendered, "current")
            /\ pc' = "aggregate"
            /\ UNCHANGED raised
    /\ UNCHANGED <<envKey, city, units, show_details, current, forecast, daily,
                   calls, shown>>

\* lines 132-154: build_daily_summary, then the table and the chart
Aggregate ==
    /\ pc = "aggregate"
    /\ LET r == build_daily_summary(forecast)
       IN IF r.error # NoException
          THEN /\ raised' = r.error
               /\ pc' = "crashed"
               /\ UNCHANGED <<daily, rendered>>
          ELSE /\ daily' = r.daily
               /\ rendered' = Append(rendered, "daily")
               /\ pc' = "render_hourly"
               /\ UNCHANGED raised
    /\ UNCHANGED <<envKey, city, units, show_details, current, forecast, calls,
                   shown>>

\* lines 156-172: the same keys of every item are read again
RenderHourly ==
    /\ pc = "render_hourly"
    /\ LET items == IF forecast.hasList THEN forecast.list ELSE <<>>
       IN IF FirstRowError(items) # NoException
          THEN /\ raised' = FirstRowError(items)
               /\ pc' = "crashed"
               /\ UNCHANGED rendered
          ELSE /\ rendered' = Append(rendered, "hourly")
               /\ pc' = "render_icons"
               /\ UNCHANGED raised
    /\ UNCHANGED <<envKey, city, units, show_details, current, forecast, daily,
                   calls, shown>>

\* lines 174-193: one icon per daily row, then the tips
RenderIcons ==
    /\ pc = "render_icons"
    /\ rendered' = rendered \o <<"icons", "tips">>
    /\ pc' = "done"
    /\ UNCHANGED <<envKey, city, units, show_details, current, forecast, daily,
                   calls, shown, raised>>

\* a user interaction reruns the script from the top; widgets keep their values
Rerun ==
    /\ pc \in {"done", "stopped", "crashed"}
    /\ pc' = "start"
    /\ current' = NotFetchedCurrent
    /\ forecast' = NotFetchedForecast
    /\ daily' = NotBuilt
    /\ calls' = <<>>
    /\ shown' = <<>>
    /\ rendered' = <<>>
    /\ raised' = NoException
    /\ UNCHANGED <<envKey, city, units, show_details>>

Next ==
    \/ Startup
    \/ ReadInputs
    \/ Validate
    \/ FetchCurrent
    \/ FetchForecast
    \/ ShowRaw
    \/ RenderCurrent
    \/ Aggregate
    \/ RenderHourly
    \/ RenderIcons
    \/ Rerun

Spec == Init /\ [][Next]_vars

(***************************************************************************)
(* build_daily_summary on its own: the script stands at line 134 with a    *)
(* forecast of well-formed items, in any arrival order.                    *)
(***************************************************************************)
Timestamps == {1704070800, 1704150000, 1704157200, 1704243600}
\* <<temp_min, temp, temp_max>>
Temperatures == {<<8, 10, 12>>, <<18, 20, 22>>, <<15, 10, 12>>}
Icons == {"01d", "02d"}

AggItems ==
    {Item(dt, t[1], t[2], t[3], ic) :
        dt \in Timestamps, t \in Temperatures, ic \in Icons}
AggForecasts ==
    {ForecastWithoutList}
    \cup {Forecast(l) : l \in UNION {[1..n -> AggItems] : n \in 0..MaxLen}}

InitAgg ==
    /\ pc = "aggregate"
    /\ envKey = [set |-> FALSE, value |-> ""]
    /\ city = DefaultCity
    /\ units = "metric"
    /\ show_details = FALSE
    /\ current = [fetched |-> TRUE, present |-> CurrentKeys]
    /\ forecast \in AggForecasts
    /\ daily = NotBuilt
    /\ calls = <<>>
    /\ shown = <<>>
    /\ rendered = <<"current">>
    /\ raised = NoException

NextAgg == Aggregate

SpecAgg == InitAgg /\ [][NextAgg]_vars

(***************************************************************************)
(* Properties.  They speak of the input in its own terms: the observation  *)
(* sequence, the UTC day an instant falls on, the observations of a day.   *)
(***************************************************************************)
Observations == IF forecast.hasList THEN forecast.list ELSE <<>>
Summaries == daily.rows

\* instant ts falls on UTC day d
OnDay(ts, d) == d * SecondsPerDay <= ts /\ ts < (d + 1) * SecondsPerDay

\* positions of the observations that fall on day d
ObservationsOn(d) == {i \in DOMAIN Observations : OnDay(Observations[i].dt, d)}

AllWellFormed == \A i \in DOMAIN Observations : WellFormed(Observations[i])

RECURSIVE TotalTemp(_)
TotalTemp(S) ==
    IF S = {} THEN 0
    ELSE LET i == CHOOSE j \in S : TRUE
         IN Observations[i].temp + TotalTemp(S \ {i})

\* C1: the dates of the returned rows are strictly ascending (so none is
\* repeated), every input observation's UTC day has a row (none dropped) and
\* every row's date is the UTC day of some input observation (none invented).
C1_DatesExactAscending ==
    daily.built =>
        /\ \A k \in 1..(Len(Summaries) - 1) :
              Summaries[k].date < Summaries[k + 1].date
        /\ \A i \in DOMAIN Observations :
              \E k \in DOMAIN Summaries : OnDay(Observations[i].dt, Summaries[k].date)
        /\ \A k \in DOMAIN Summaries : ObservationsOn(Summaries[k].date) # {}

\* three observations arrive out of date order, two of them on the same day
C1_Witness ==
    /\ daily.built
    /\ Len(Observations) = 3
    /\ Len(Summaries) = 2
    /\ \E i, j \in DOMAIN Observations :
          i < j /\ Observations[i].dt > Observations[j].dt + SecondsPerDay

\* C2: each row's mean is the sum of the temperatures of exactly the
\* observations of its date divided by their number, its minimum is the least
\* of their interval minima and its maximum the greatest of their interval
\* maxima.
C2_RowAggregatesOwnGroup ==
    (daily.built /\ AllWellFormed) =>
        \A k \in DOMAIN Summaries :
            LET row == Summaries[k]
                S == ObservationsOn(row.date)
            IN /\ row.temp.den > 0
               /\ row.temp.num * Cardinality(S) = TotalTemp(S) * row.temp.den
               /\ row.temp_min.den = 1
               /\ \E i \in S : Observations[i].temp_min = row.temp_min.num
               /\ \A i \in S : row.temp_min.num <= Observations[i].temp_min
               /\ row.temp_max.den = 1
               /\ \E i \in S : Observations[i].temp_max = row.temp_max.num
               /\ \A i \in S : Observations[i].temp_max <= row.temp_max.num

\* two dates, one of them with two observations of different temperatures
C2_Witness ==
    /\ daily.built
    /\ Len(Summaries) = 2
    /\ \E k \in DOMAIN Summaries :
          \E i, j \in ObservationsOn(Summaries[k].date) :
              /\ Observations[i].temp # Observations[j].temp
              /\ Observations[i].temp_min # Observations[j].temp_min

\* every observation of day d has temp_min <= temp <= temp_max
Ordered(d) ==
    \A i \in ObservationsOn(d) :
        /\ Observations[i].temp_min <= Observations[i].temp
        /\ Observations[i].temp <= Observations[i].temp_max

\* C3 as stated: for every row of every output, min <= mean <= max.
C3_MinMeanMaxAlways ==
    (daily.built /\ AllWellFormed) =>
        \A k \in DOMAIN Summaries :
            /\ FloatLeq(Summaries[k].temp_min, Summaries[k].temp)
            /\ FloatLeq(Summaries[k].temp, Summaries[k].temp_max)

\* C3 amended: min <= mean <= max for every row whose observations each
\* have temp_min <= temp <= temp_max.
C3_MinMeanMaxWhenOrdered ==
    (daily.built /\ AllWellFormed) =>
        \A k \in DOMAIN Summaries :
            Ordered(Summaries[k].date) =>
                /\ FloatLeq(Summaries[k].temp_min, Summaries[k].temp)
                /\ FloatLeq(Summaries[k].temp, Summaries[k].temp_max)

\* a day with two ordered observations of different temperatures, next to a
\* day that has an observation out of order
C3_Witness ==
    /\ daily.built
    /\ \E k \in DOMAIN Summaries :
          /\ Ordered(Summaries[k].date)
          /\ \E i, j \in ObservationsOn(Summaries[k].date) :
                Observations[i].temp < Observations[j].temp
    /\ \E k \in DOMAIN Summaries : ~Ordered(Summaries[k].date)

\* C4: a row's icon is the icon of the observation that has exactly n \div 2
\* observations of the same date before it in arrival order, n being the
\* number of observations of that date.
C4_IconOfMiddleObservation ==
    (daily.built /\ AllWellFormed) =>
        \A k \in DOMAIN Summaries :
            LET S == ObservationsOn(Summaries[k].date)
            IN \E i \in S :
                  /\ Cardinality({j \in S : j < i}) = Cardinality(S) \div 2
                  /\ Summaries[k].icon = Observations[i].icon

\* a day with two observations of different icons, an observation of
\* another day arriving between them
C4_Witness ==
    /\ daily.built
    /\ Len(Observations) = 3
    /\ OnDay(Observations[1].dt, Summaries[1].date)
    /\ ~OnDay(Observations[2].dt, Summaries[1].date)
    /\ OnDay(Observations[3].dt, Summaries[1].date)
    /\ Observations[1].icon # Observations[3].icon

\* C5: once build_daily_summary has run on an empty observation sequence,
\* it has returned an empty sequence of summaries and nothing was raised.
C5_EmptyInputEmptyOutput ==
    (pc # "aggregate" /\ Observations = <<>>) =>
        /\ daily.built
        /\ Summaries = <<>>
        /\ raised = NoException

\* only whitespace, or nothing at all
Blank(c) == \A i \in DOMAIN c : c[i] \in Whitespace

Warning == [level |-> "warning", text |-> "Please enter a city name."]

\* C6: in a cycle whose city is blank the script gets no further than the
\* validation: no request is issued, nothing is fetched, aggregated or
\* rendered, and where it halts the warning is what is shown.
C6_BlankCityHaltsBeforeFetch ==
    (Blank(city) /\ pc \notin {"start", "read_inputs"}) =>
        /\ pc \in {"validate", "stopped"}
        /\ calls = <<>>
        /\ ~current.fetched
        /\ ~forecast.fetched
        /\ ~daily.built
        /\ rendered = <<>>
        /\ (pc = "stopped" => shown = <<Warning>>)

\* a city of two whitespace characters was rejected
C6_Witness ==
    /\ pc = "stopped"
    /\ city = <<" ", "\t">>
    /\ shown = <<Warning>>
    /\ calls = <<>>

\* C7: a failed request is the last request of its cycle (no retry, no
\* forecast request after a failed current-weather request), the cycle has
\* stopped with an error message as the last thing shown, and nothing was
\* aggregated or rendered.
C7_FetchFailureEndsCycle ==
    \A i \in DOMAIN calls :
        calls[i].outcome # "ok" =>
            /\ i = Len(calls)
            /\ \A j \in DOMAIN calls : j # i => calls[j].url # calls[i].url
            /\ pc = "stopped"
            /\ shown # <<>>
            /\ shown[Len(shown)].level = "error"
            /\ (calls[i].url = "weather" => ~current.fetched)
            /\ ~forecast.fetched
            /\ ~daily.built
            /\ rendered = <<>>
            /\ raised = NoException

\* the current weather came, the forecast request timed out
C7_Witness ==
    /\ pc = "stopped"
    /\ Len(calls) = 2
    /\ calls[1].outcome = "ok"
    /\ calls[2].url = "forecast"
    /\ calls[2].outcome = "transport_error"
    /\ shown = <<[level |-> "error", text |-> "Unexpected error"]>>

\* C8: no error escapes the script uncaught.
C8_NoErrorEscapes == raised = NoException /\ pc # "crashed"

\* C9: with no credential in the environment the script has halted at
\* startup, before inputs and requests; and every request carries the
\* environment's credential.
C9_CredentialFromEnvironment ==
    /\ (~envKey.set \/ envKey.value = "") =>
          (pc \in {"start", "stopped"} /\ calls = <<>>)
    /\ \A i \in DOMAIN calls : envKey.set /\ calls[i].appid = envKey.value

\* C10: from a forecast with a malformed observation no daily summary is
\* ever returned.
C10_MalformedInputFails ==
    (\E i \in DOMAIN Observations : ~WellFormed(Observations[i])) => ~daily.built

=============================================================================
